---- MODULE Spec2Model ----
(***************************************************************************)
(* Model of Fonts/UI/build_cpp.py: CompilerDetector (toolchain detection), *)
(* CppBuilder (priority-ordered fallback build) and main (CLI driver).     *)
(*                                                                         *)
(* Text values the code operates on (compiler type, --force argument,      *)
(* captured stdout/stderr, version) are sequences of one-character         *)
(* strings, so that lower(), split('\n')[0] and the version regex are      *)
(* computed rather than assumed.                                           *)
(***************************************************************************)
EXTENDS Integers, Sequences, FiniteSets, TLC

VARIABLES
    system,      \* CompilerDetector.system: platform.system().lower()
    onPath,      \* host: command names shutil.which resolves
    vsExisting,  \* host: indices of vs_paths for which os.path.exists holds
    probes,      \* host: what running each version query does (command -> result)
    list,        \* args.list
    clean,       \* args.clean
    force,       \* args.force: given = FALSE when the flag is absent (None)
    buildDir,    \* filesystem: build/ exists
    binDir,      \* filesystem: build/bin/ exists
    pc,          \* position in main / build_with_best_compiler
    compilers,   \* the list returned by detect_compilers (sorted in automatic mode)
    idx,         \* position of the for loop over compilers (1-based)
    log,         \* history: one record per call of _build_with_compiler
    out,         \* history: tags of the messages printed so far
    exitCode     \* value returned by main (-1 while main is running)

vars == <<system, onPath, vsExisting, probes, list, clean, force,
          buildDir, binDir, pc, compilers, idx, log, out, exitCode>>

hostVars == <<system, onPath, vsExisting, probes>>
argVars == <<list, clean, force>>

None == "None"

(***************************************************************************)
(* Bounds of the model.                                                    *)
(***************************************************************************)
\* at most this many of the well-known Visual Studio paths exist on a host
\* of the full-run specification
MaxVsInstalled == 1

(***************************************************************************)
(* Text helpers.                                                           *)
(***************************************************************************)
\* Text is a sequence of Unicode code points. AsciiTo95 lists the printable
\* ASCII characters of code points 32 to 95 and AsciiFrom97 those of 97 to
\* 126; ord gives the code point of one of them or of the newline, and Text
\* writes a literal of the source.
AsciiTo95 ==
    <<" ", "!", "\"", "#", "$", "%", "&", "'", "(", ")", "*", "+", ",", "-", ".", "/",
      "0", "1", "2", "3", "4", "5", "6", "7", "8", "9", ":", ";", "<", "=", ">", "?",
      "@", "A", "B", "C", "D", "E", "F", "G", "H", "I", "J", "K", "L", "M", "N", "O",
      "P", "Q", "R", "S", "T", "U", "V", "W", "X", "Y", "Z", "[", "\\", "]", "^", "_">>

AsciiFrom97 ==
    <<"a", "b", "c", "d", "e", "f", "g", "h", "i", "j", "k", "l", "m", "n", "o", "p",
      "q", "r", "s", "t", "u", "v", "w", "x", "y", "z", "{", "|", "}", "~">>

ord(ch) ==
    IF ch = "\n" THEN 10
    ELSE IF \E i \in DOMAIN AsciiTo95 : AsciiTo95[i] = ch
    THEN 31 + CHOOSE i \in DOMAIN AsciiTo95 : AsciiTo95[i] = ch
    ELSE 96 + CHOOSE i \in DOMAIN AsciiFrom97 : AsciiFrom97[i] = ch

Text(s) == [i \in 1..Len(s) |-> ord(s[i])]

\* the characters the code names: the "\n" of split and the "." of the pattern
Newline == ord("\n")
Dot == ord(".")

InRanges(c, ranges) == \E r \in ranges : r[1] <= c /\ c <= r[2]

\* the characters \d matches in a str pattern compiled without re.ASCII:
\* the decimal digits of every script (general category Nd, Unicode 14.0),
\* as ranges of code points
DigitRanges ==
    {<<48, 57>>, <<1632, 1641>>, <<1776, 1785>>, <<1984, 1993>>, <<2406, 2415>>,
     <<2534, 2543>>, <<2662, 2671>>, <<2790, 2799>>, <<2918, 2927>>, <<3046, 3055>>,
     <<3174, 3183>>, <<3302, 3311>>, <<3430, 3439>>, <<3558, 3567>>, <<3664, 3673>>,
     <<3792, 3801>>, <<3872, 3881>>, <<4160, 4169>>, <<4240, 4249>>, <<6112, 6121>>,
     <<6160, 6169>>, <<6470, 6479>>, <<6608, 6617>>, <<6784, 6793>>, <<6800, 6809>>,
     <<6992, 7001>>, <<7088, 7097>>, <<7232, 7241>>, <<7248, 7257>>, <<42528, 42537>>,
     <<43216, 43225>>, <<43264, 43273>>, <<43472, 43481>>, <<43504, 43513>>, <<43600, 43609>>,
     <<44016, 44025>>, <<65296, 65305>>, <<66720, 66729>>, <<68912, 68921>>, <<69734, 69743>>,
     <<69872, 69881>>, <<69942, 69951>>, <<70096, 70105>>, <<70384, 70393>>, <<70736, 70745>>,
     <<70864, 70873>>, <<71248, 71257>>, <<71360, 71369>>, <<71472, 71481>>, <<71904, 71913>>,
     <<72016, 72025>>, <<72784, 72793>>, <<73040, 73049>>, <<73120, 73129>>, <<92768, 92777>>,
     <<92864, 92873>>, <<93008, 93017>>, <<120782, 120831>>, <<123200, 123209>>, <<123632, 123641>>,
     <<125264, 125273>>, <<130032, 130041>>}

Digits == UNION {r[1]..r[2] : r \in DigitRanges}

\* the one-to-one lower-case mappings of str.lower (Unicode 14.0): every
\* step-th code point from lo to hi maps to itself plus delta, written
\* <<lo, hi, step, delta>>
LowerRuns ==
    {<<65, 90, 1, 32>>, <<192, 214, 1, 32>>, <<216, 222, 1, 32>>,
     <<256, 302, 2, 1>>, <<306, 310, 2, 1>>, <<313, 327, 2, 1>>,
     <<330, 374, 2, 1>>, <<376, 376, 1, -121>>, <<377, 381, 2, 1>>,
     <<385, 385, 1, 210>>, <<386, 388, 2, 1>>, <<390, 390, 1, 206>>,
     <<391, 391, 1, 1>>, <<393, 394, 1, 205>>, <<395, 395, 1, 1>>,
     <<398, 398, 1, 79>>, <<399, 399, 1, 202>>, <<400, 400, 1, 203>>,
     <<401, 401, 1, 1>>, <<403, 403, 1, 205>>, <<404, 404, 1, 207>>,
     <<406, 406, 1, 211>>, <<407, 407, 1, 209>>, <<408, 408, 1, 1>>,
     <<412, 412, 1, 211>>, <<413, 413, 1, 213>>, <<415, 415, 1, 214>>,
     <<416, 420, 2, 1>>, <<422, 422, 1, 218>>, <<423, 423, 1, 1>>,
     <<425, 425, 1, 218>>, <<428, 428, 1, 1>>, <<430, 430, 1, 218>>,
     <<431, 431, 1, 1>>, <<433, 434, 1, 217>>, <<435, 437, 2, 1>>,
     <<439, 439, 1, 219>>, <<440, 440, 1, 1>>, <<444, 444, 1, 1>>,
     <<452, 452, 1, 2>>, <<453, 453, 1, 1>>, <<455, 455, 1, 2>>,
     <<456, 456, 1, 1>>, <<458, 458, 1, 2>>, <<459, 475, 2, 1>>,
     <<478, 494, 2, 1>>, <<497, 497, 1, 2>>, <<498, 500, 2, 1>>,
     <<502, 502, 1, -97>>, <<503, 503, 1, -56>>, <<504, 542, 2, 1>>,
     <<544, 544, 1, -130>>, <<546, 562, 2, 1>>, <<570, 570, 1, 10795>>,
     <<571, 571, 1, 1>>, <<573, 573, 1, -163>>, <<574, 574, 1, 10792>>,
     <<577, 577, 1, 1>>, <<579, 579, 1, -195>>, <<580, 580, 1, 69>>,
     <<581, 581, 1, 71>>, <<582, 590, 2, 1>>, <<880, 882, 2, 1>>,
     <<886, 886, 1, 1>>, <<895, 895, 1, 116>>, <<902, 902, 1, 38>>,
     <<904, 906, 1, 37>>, <<908, 908, 1, 64>>, <<910, 911, 1, 63>>,
     <<913, 929, 1, 32>>, <<931, 939, 1, 32>>, <<975, 975, 1, 8>>,
     <<984, 1006, 2, 1>>, <<1012, 1012, 1, -60>>, <<1015, 1015, 1, 1>>,
     <<1017, 1017, 1, -7>>, <<1018, 1018, 1, 1>>, <<1021, 1023, 1, -130>>,
     <<1024, 1039, 1, 80>>, <<1040, 1071, 1, 32>>, <<1120, 1152, 2, 1>>,
     <<1162, 1214, 2, 1>>, <<1216, 1216, 1, 15>>, <<1217, 1229, 2, 1>>,
     <<1232, 1326, 2, 1>>, <<1329, 1366, 1, 48>>, <<4256, 4293, 1, 7264>>,
     <<4295, 4295, 1, 7264>>, <<4301, 4301, 1, 7264>>, <<5024, 5103, 1, 38864>>,
     <<5104, 5109, 1, 8>>, <<7312, 7354, 1, -3008>>, <<7357, 7359, 1, -3008>>,
     <<7680, 7828, 2, 1>>, <<7838, 7838, 1, -7615>>, <<7840, 7934, 2, 1>>,
     <<7944, 7951, 1, -8>>, <<7960, 7965, 1, -8>>, <<7976, 7983, 1, -8>>,
     <<7992, 7999, 1, -8>>, <<8008, 8013, 1, -8>>, <<8025, 8031, 2, -8>>,
     <<8040, 8047, 1, -8>>, <<8072, 8079, 1, -8>>, <<8088, 8095, 1, -8>>,
     <<8104, 8111, 1, -8>>, <<8120, 8121, 1, -8>>, <<8122, 8123, 1, -74>>,
     <<8124, 8124, 1, -9>>, <<8136, 8139, 1, -86>>, <<8140, 8140, 1, -9>>,
     <<8152, 8153, 1, -8>>, <<8154, 8155, 1, -100>>, <<8168, 8169, 1, -8>>,
     <<8170, 8171, 1, -112>>, <<8172, 8172, 1, -7>>, <<8184, 8185, 1, -128>>,
     <<8186, 8187, 1, -126>>, <<8188, 8188, 1, -9>>, <<8486, 8486, 1, -7517>>,
     <<8490, 8490, 1, -8383>>, <<8491, 8491, 1, -8262>>, <<8498, 8498, 1, 28>>,
     <<8544, 8559, 1, 16>>, <<8579, 8579, 1, 1>>, <<9398, 9423, 1, 26>>,
     <<11264, 11311, 1, 48>>, <<11360, 11360, 1, 1>>, <<11362, 11362, 1, -10743>>,
     <<11363, 11363, 1, -3814>>, <<11364, 11364, 1, -10727>>, <<11367, 11371, 2, 1>>,
     <<11373, 11373, 1, -10780>>, <<11374, 11374, 1, -10749>>, <<11375, 11375, 1, -10783>>,
     <<11376, 11376, 1, -10782>>, <<11378, 11378, 1, 1>>, <<11381, 11381, 1, 1>>,
     <<11390, 11391, 1, -10815>>, <<11392, 11490, 2, 1>>, <<11499, 11501, 2, 1>>,
     <<11506, 11506, 1, 1>>, <<42560, 42604, 2, 1>>, <<42624, 42650, 2, 1>>,
     <<42786, 42798, 2, 1>>, <<42802, 42862, 2, 1>>, <<42873, 42875, 2, 1>>,
     <<42877, 42877, 1, -35332>>, <<42878, 42886, 2, 1>>, <<42891, 42891, 1, 1>>,
     <<42893, 42893, 1, -42280>>, <<42896, 42898, 2, 1>>, <<42902, 42920, 2, 1>>,
     <<42922, 42922, 1, -42308>>, <<42923, 42923, 1, -42319>>, <<42924, 42924, 1, -42315>>,
     <<42925, 42925, 1, -42305>>, <<42926, 42926, 1, -42308>>, <<42928, 42928, 1, -42258>>,
     <<42929, 42929, 1, -42282>>, <<42930, 42930, 1, -42261>>, <<42931, 42931, 1, 928>>,
     <<42932, 42946, 2, 1>>, <<42948, 42948, 1, -48>>, <<42949, 42949, 1, -42307>>,
     <<42950, 42950, 1, -35384>>, <<42951, 42953, 2, 1>>, <<42960, 42960, 1, 1>>,
     <<42966, 42968, 2, 1>>, <<42997, 42997, 1, 1>>, <<65313, 65338, 1, 32>>,
     <<66560, 66599, 1, 40>>, <<66736, 66771, 1, 40>>, <<66928, 66938, 1, 39>>,
     <<66940, 66954, 1, 39>>, <<66956, 66962, 1, 39>>, <<66964, 66965, 1, 39>>,
     <<68736, 68786, 1, 64>>, <<71840, 71871, 1, 32>>, <<93760, 93791, 1, 32>>,
     <<125184, 125217, 1, 34>>}

\* the mappings of LowerRuns as one function of the code points they map
LowerMap ==
    [c \in UNION {{x \in r[1]..r[2] : (x - r[1]) % r[3] = 0} : r \in LowerRuns} |->
        c + (CHOOSE r \in LowerRuns :
                 r[1] <= c /\ c <= r[2] /\ (c - r[1]) % r[3] = 0)[4]]

\* the cased characters that are not case-ignorable, and the case-ignorable
\* characters: the two classes the Final_Sigma rule of str.lower looks at (a
\* case-ignorable character is skipped before its casing is asked for)
CasedRanges ==
    {<<65, 90>>, <<97, 122>>, <<170, 170>>, <<181, 181>>, <<186, 186>>,
     <<192, 214>>, <<216, 246>>, <<248, 442>>, <<444, 447>>, <<452, 659>>,
     <<661, 687>>, <<880, 883>>, <<886, 887>>, <<891, 893>>, <<895, 895>>,
     <<902, 902>>, <<904, 906>>, <<908, 908>>, <<910, 929>>, <<931, 1013>>,
     <<1015, 1153>>, <<1162, 1327>>, <<1329, 1366>>, <<1376, 1416>>, <<4256, 4293>>,
     <<4295, 4295>>, <<4301, 4301>>, <<4304, 4346>>, <<4349, 4351>>, <<5024, 5109>>,
     <<5112, 5117>>, <<7296, 7304>>, <<7312, 7354>>, <<7357, 7359>>, <<7424, 7467>>,
     <<7531, 7543>>, <<7545, 7578>>, <<7680, 7957>>, <<7960, 7965>>, <<7968, 8005>>,
     <<8008, 8013>>, <<8016, 8023>>, <<8025, 8025>>, <<8027, 8027>>, <<8029, 8029>>,
     <<8031, 8061>>, <<8064, 8116>>, <<8118, 8124>>, <<8126, 8126>>, <<8130, 8132>>,
     <<8134, 8140>>, <<8144, 8147>>, <<8150, 8155>>, <<8160, 8172>>, <<8178, 8180>>,
     <<8182, 8188>>, <<8450, 8450>>, <<8455, 8455>>, <<8458, 8467>>, <<8469, 8469>>,
     <<8473, 8477>>, <<8484, 8484>>, <<8486, 8486>>, <<8488, 8488>>, <<8490, 8493>>,
     <<8495, 8500>>, <<8505, 8505>>, <<8508, 8511>>, <<8517, 8521>>, <<8526, 8526>>,
     <<8544, 8575>>, <<8579, 8580>>, <<9398, 9449>>, <<11264, 11387>>, <<11390, 11492>>,
     <<11499, 11502>>, <<11506, 11507>>, <<11520, 11557>>, <<11559, 11559>>, <<11565, 11565>>,
     <<42560, 42605>>, <<42624, 42651>>, <<42786, 42863>>, <<42865, 42887>>, <<42891, 42894>>,
     <<42896, 42954>>, <<42960, 42961>>, <<42963, 42963>>, <<42965, 42969>>, <<42997, 42998>>,
     <<43002, 43002>>, <<43824, 43866>>, <<43872, 43880>>, <<43888, 43967>>, <<64256, 64262>>,
     <<64275, 64279>>, <<65313, 65338>>, <<65345, 65370>>, <<66560, 66639>>, <<66736, 66771>>,
     <<66776, 66811>>, <<66928, 66938>>, <<66940, 66954>>, <<66956, 66962>>, <<66964, 66965>>,
     <<66967, 66977>>, <<66979, 66993>>, <<66995, 67001>>, <<67003, 67004>>, <<68736, 68786>>,
     <<68800, 68850>>, <<71840, 71903>>, <<93760, 93823>>, <<119808, 119892>>, <<119894, 119964>>,
     <<119966, 119967>>, <<119970, 119970>>, <<119973, 119974>>, <<119977, 119980>>, <<119982, 119993>>,
     <<119995, 119995>>, <<119997, 120003>>, <<120005, 120069>>, <<120071, 120074>>, <<120077, 120084>>,
     <<120086, 120092>>, <<120094, 120121>>, <<120123, 120126>>, <<120128, 120132>>, <<120134, 120134>>,
     <<120138, 120144>>, <<120146, 120485>>, <<120488, 120512>>, <<120514, 120538>>, <<120540, 120570>>,
     <<120572, 120596>>, <<120598, 120628>>, <<120630, 120654>>, <<120656, 120686>>, <<120688, 120712>>,
     <<120714, 120744>>, <<120746, 120770>>, <<120772, 120779>>, <<122624, 122633>>, <<122635, 122654>>,
     <<125184, 125251>>, <<127280, 127305>>, <<127312, 127337>>, <<127344, 127369>>}

CaseIgnorableRanges ==
    {<<39, 39>>, <<46, 46>>, <<58, 58>>, <<94, 94>>, <<96, 96>>,
     <<168, 168>>, <<173, 173>>, <<175, 175>>, <<180, 180>>, <<183, 184>>,
     <<688, 879>>, <<884, 885>>, <<890, 890>>, <<900, 901>>, <<903, 903>>,
     <<1155, 1161>>, <<1369, 1369>>, <<1375, 1375>>, <<1425, 1469>>, <<1471, 1471>>,
     <<1473, 1474>>, <<1476, 1477>>, <<1479, 1479>>, <<1524, 1524>>, <<1536, 1541>>,
     <<1552, 1562>>, <<1564, 1564>>, <<1600, 1600>>, <<1611, 1631>>, <<1648, 1648>>,
     <<1750, 1757>>, <<1759, 1768>>, <<1770, 1773>>, <<1807, 1807>>, <<1809, 1809>>,
     <<1840, 1866>>, <<1958, 1968>>, <<2027, 2037>>, <<2042, 2042>>, <<2045, 2045>>,
     <<2070, 2093>>, <<2137, 2139>>, <<2184, 2184>>, <<2192, 2193>>, <<2200, 2207>>,
     <<2249, 2306>>, <<2362, 2362>>, <<2364, 2364>>, <<2369, 2376>>, <<2381, 2381>>,
     <<2385, 2391>>, <<2402, 2403>>, <<2417, 2417>>, <<2433, 2433>>, <<2492, 2492>>,
     <<2497, 2500>>, <<2509, 2509>>, <<2530, 2531>>, <<2558, 2558>>, <<2561, 2562>>,
     <<2620, 2620>>, <<2625, 2626>>, <<2631, 2632>>, <<2635, 2637>>, <<2641, 2641>>,
     <<2672, 2673>>, <<2677, 2677>>, <<2689, 2690>>, <<2748, 2748>>, <<2753, 2757>>,
     <<2759, 2760>>, <<2765, 2765>>, <<2786, 2787>>, <<2810, 2815>>, <<2817, 2817>>,
     <<2876, 2876>>, <<2879, 2879>>, <<2881, 2884>>, <<2893, 2893>>, <<2901, 2902>>,
     <<2914, 2915>>, <<2946, 2946>>, <<3008, 3008>>, <<3021, 3021>>, <<3072, 3072>>,
     <<3076, 3076>>, <<3132, 3132>>, <<3134, 3136>>, <<3142, 3144>>, <<3146, 3149>>,
     <<3157, 3158>>, <<3170, 3171>>, <<3201, 3201>>, <<3260, 3260>>, <<3263, 3263>>,
     <<3270, 3270>>, <<3276, 3277>>, <<3298, 3299>>, <<3328, 3329>>, <<3387, 3388>>,
     <<3393, 3396>>, <<3405, 3405>>, <<3426, 3427>>, <<3457, 3457>>, <<3530, 3530>>,
     <<3538, 3540>>, <<3542, 3542>>, <<3633, 3633>>, <<3636, 3642>>, <<3654, 3662>>,
     <<3761, 3761>>, <<3764, 3772>>, <<3782, 3782>>, <<3784, 3789>>, <<3864, 3865>>,
     <<3893, 3893>>, <<3895, 3895>>, <<3897, 3897>>, <<3953, 3966>>, <<3968, 3972>>,
     <<3974, 3975>>, <<3981, 3991>>, <<3993, 4028>>, <<4038, 4038>>, <<4141, 4144>>,
     <<4146, 4151>>, <<4153, 4154>>, <<4157, 4158>>, <<4184, 4185>>, <<4190, 4192>>,
     <<4209, 4212>>, <<4226, 4226>>, <<4229, 4230>>, <<4237, 4237>>, <<4253, 4253>>,
     <<4348, 4348>>, <<4957, 4959>>, <<5906, 5908>>, <<5938, 5939>>, <<5970, 5971>>,
     <<6002, 6003>>, <<6068, 6069>>, <<6071, 6077>>, <<6086, 6086>>, <<6089, 6099>>,
     <<6103, 6103>>, <<6109, 6109>>, <<6155, 6159>>, <<6211, 6211>>, <<6277, 6278>>,
     <<6313, 6313>>, <<6432, 6434>>, <<6439, 6440>>, <<6450, 6450>>, <<6457, 6459>>,
     <<6679, 6680>>, <<6683, 6683>>, <<6742, 6742>>, <<6744, 6750>>, <<6752, 6752>>,
     <<6754, 6754>>, <<6757, 6764>>, <<6771, 6780>>, <<6783, 6783>>, <<6823, 6823>>,
     <<6832, 6862>>, <<6912, 6915>>, <<6964, 6964>>, <<6966, 6970>>, <<6972, 6972>>,
     <<6978, 6978>>, <<7019, 7027>>, <<7040, 7041>>, <<7074, 7077>>, <<7080, 7081>>,
     <<7083, 7085>>, <<7142, 7142>>, <<7144, 7145>>, <<7149, 7149>>, <<7151, 7153>>,
     <<7212, 7219>>, <<7222, 7223>>, <<7288, 7293>>, <<7376, 7378>>, <<7380, 7392>>,
     <<7394, 7400>>, <<7405, 7405>>, <<7412, 7412>>, <<7416, 7417>>, <<7468, 7530>>,
     <<7544, 7544>>, <<7579, 7679>>, <<8125, 8125>>, <<8127, 8129>>, <<8141, 8143>>,
     <<8157, 8159>>, <<8173, 8175>>, <<8189, 8190>>, <<8203, 8207>>, <<8216, 8217>>,
     <<8228, 8228>>, <<8231, 8231>>, <<8234, 8238>>, <<8288, 8292>>, <<8294, 8303>>,
     <<8305, 8305>>, <<8319, 8319>>, <<8336, 8348>>, <<8400, 8432>>, <<11388, 11389>>,
     <<11503, 11505>>, <<11631, 11631>>, <<11647, 11647>>, <<11744, 11775>>, <<11823, 11823>>,
     <<12293, 12293>>, <<12330, 12333>>, <<12337, 12341>>, <<12347, 12347>>, <<12441, 12446>>,
     <<12540, 12542>>, <<40981, 40981>>, <<42232, 42237>>, <<42508, 42508>>, <<42607, 42610>>,
     <<42612, 42621>>, <<42623, 42623>>, <<42652, 42655>>, <<42736, 42737>>, <<42752, 42785>>,
     <<42864, 42864>>, <<42888, 42890>>, <<42994, 42996>>, <<43000, 43001>>, <<43010, 43010>>,
     <<43014, 43014>>, <<43019, 43019>>, <<43045, 43046>>, <<43052, 43052>>, <<43204, 43205>>,
     <<43232, 43249>>, <<43263, 43263>>, <<43302, 43309>>, <<43335, 43345>>, <<43392, 43394>>,
     <<43443, 43443>>, <<43446, 43449>>, <<43452, 43453>>, <<43471, 43471>>, <<43493, 43494>>,
     <<43561, 43566>>, <<43569, 43570>>, <<43573, 43574>>, <<43587, 43587>>, <<43596, 43596>>,
     <<43632, 43632>>, <<43644, 43644>>, <<43696, 43696>>, <<43698, 43700>>, <<43703, 43704>>,
     <<43710, 43711>>, <<43713, 43713>>, <<43741, 43741>>, <<43756, 43757>>, <<43763, 43764>>,
     <<43766, 43766>>, <<43867, 43871>>, <<43881, 43883>>, <<44005, 44005>>, <<44008, 44008>>,
     <<44013, 44013>>, <<64286, 64286>>, <<64434, 64450>>, <<65024, 65039>>, <<65043, 65043>>,
     <<65056, 65071>>, <<65106, 65106>>, <<65109, 65109>>, <<65279, 65279>>, <<65287, 65287>>,
     <<65294, 65294>>, <<65306, 65306>>, <<65342, 65342>>, <<65344, 65344>>, <<65392, 65392>>,
     <<65438, 65439>>, <<65507, 65507>>, <<65529, 65531>>, <<66045, 66045>>, <<66272, 66272>>,
     <<66422, 66426>>, <<67456, 67461>>, <<67463, 67504>>, <<67506, 67514>>, <<68097, 68099>>,
     <<68101, 68102>>, <<68108, 68111>>, <<68152, 68154>>, <<68159, 68159>>, <<68325, 68326>>,
     <<68900, 68903>>, <<69291, 69292>>, <<69446, 69456>>, <<69506, 69509>>, <<69633, 69633>>,
     <<69688, 69702>>, <<69744, 69744>>, <<69747, 69748>>, <<69759, 69761>>, <<69811, 69814>>,
     <<69817, 69818>>, <<69821, 69821>>, <<69826, 69826>>, <<69837, 69837>>, <<69888, 69890>>,
     <<69927, 69931>>, <<69933, 69940>>, <<70003, 70003>>, <<70016, 70017>>, <<70070, 70078>>,
     <<70089, 70092>>, <<70095, 70095>>, <<70191, 70193>>, <<70196, 70196>>, <<70198, 70199>>,
     <<70206, 70206>>, <<70367, 70367>>, <<70371, 70378>>, <<70400, 70401>>, <<70459, 70460>>,
     <<70464, 70464>>, <<70502, 70508>>, <<70512, 70516>>, <<70712, 70719>>, <<70722, 70724>>,
     <<70726, 70726>>, <<70750, 70750>>, <<70835, 70840>>, <<70842, 70842>>, <<70847, 70848>>,
     <<70850, 70851>>, <<71090, 71093>>, <<71100, 71101>>, <<71103, 71104>>, <<71132, 71133>>,
     <<71219, 71226>>, <<71229, 71229>>, <<71231, 71232>>, <<71339, 71339>>, <<71341, 71341>>,
     <<71344, 71349>>, <<71351, 71351>>, <<71453, 71455>>, <<71458, 71461>>, <<71463, 71467>>,
     <<71727, 71735>>, <<71737, 71738>>, <<71995, 71996>>, <<71998, 71998>>, <<72003, 72003>>,
     <<72148, 72151>>, <<72154, 72155>>, <<72160, 72160>>, <<72193, 72202>>, <<72243, 72248>>,
     <<72251, 72254>>, <<72263, 72263>>, <<72273, 72278>>, <<72281, 72283>>, <<72330, 72342>>,
     <<72344, 72345>>, <<72752, 72758>>, <<72760, 72765>>, <<72767, 72767>>, <<72850, 72871>>,
     <<72874, 72880>>, <<72882, 72883>>, <<72885, 72886>>, <<73009, 73014>>, <<73018, 73018>>,
     <<73020, 73021>>, <<73023, 73029>>, <<73031, 73031>>, <<73104, 73105>>, <<73109, 73109>>,
     <<73111, 73111>>, <<73459, 73460>>, <<78896, 78904>>, <<92912, 92916>>, <<92976, 92982>>,
     <<92992, 92995>>, <<94031, 94031>>, <<94095, 94111>>, <<94176, 94177>>, <<94179, 94180>>,
     <<110576, 110579>>, <<110581, 110587>>, <<110589, 110590>>, <<113821, 113822>>, <<113824, 113827>>,
     <<118528, 118573>>, <<118576, 118598>>, <<119143, 119145>>, <<119155, 119170>>, <<119173, 119179>>,
     <<119210, 119213>>, <<119362, 119364>>, <<121344, 121398>>, <<121403, 121452>>, <<121461, 121461>>,
     <<121476, 121476>>, <<121499, 121503>>, <<121505, 121519>>, <<122880, 122886>>, <<122888, 122904>>,
     <<122907, 122913>>, <<122915, 122916>>, <<122918, 122922>>, <<123184, 123197>>, <<123566, 123566>>,
     <<123628, 123631>>, <<125136, 125142>>, <<125252, 125259>>, <<127995, 127999>>, <<917505, 917505>>,
     <<917536, 917631>>, <<917760, 917999>>}

Cased(c) == InRanges(c, CasedRanges)
CaseIgnorable(c) == InRanges(c, CaseIgnorableRanges)

\* chr(c).lower(), the lower-casing of a string of one character: U+0130
\* gives two characters, a capital sigma on its own a small sigma
LowerChar(c) ==
    IF c = 304 THEN <<105, 775>>
    ELSE IF c \in DOMAIN LowerMap THEN <<LowerMap[c]>>
    ELSE <<c>>

\* the capital sigma at position i of s is in the Final_Sigma context: the
\* nearest character before it that is not case-ignorable is cased, and the
\* nearest one after it, when there is one, is not
FinalSigma(s, i) ==
    LET before == {j \in 1..(i-1) : ~CaseIgnorable(s[j])}
        after == {j \in (i+1)..Len(s) : ~CaseIgnorable(s[j])}
    IN  /\ before # {}
        /\ Cased(s[CHOOSE j \in before : \A k \in before : k <= j])
        /\ (after = {} \/ ~Cased(s[CHOOSE j \in after : \A k \in after : j <= k]))

\* what str.lower() gives for the character at position i of s
LowerAt(s, i) ==
    IF s[i] = 931 THEN <<IF FinalSigma(s, i) THEN 962 ELSE 963>>
    ELSE LowerChar(s[i])

RECURSIVE LowerUpTo(_, _)
LowerUpTo(s, n) == IF n = 0 THEN << >> ELSE LowerUpTo(s, n - 1) \o LowerAt(s, n)

\* str.lower()
Lower(s) == LowerUpTo(s, Len(s))

\* index of the first "\n" of s, or Len(s)+1 when there is none
FirstNewline(s) ==
    IF \E i \in 1..Len(s) : s[i] = Newline
    THEN CHOOSE i \in 1..Len(s) :
             s[i] = Newline /\ \A j \in 1..(i-1) : s[j] # Newline
    ELSE Len(s) + 1

\* s.split('\n')[0]
FirstLine(s) == SubSeq(s, 1, FirstNewline(s) - 1)

Unknown == Text(<<"U","n","k","n","o","w","n">>)

\* the compiler "type" strings
T_msvc == Text(<<"m","s","v","c">>)
T_gcc == Text(<<"g","c","c">>)
T_clang == Text(<<"c","l","a","n","g">>)
T_intel == Text(<<"i","n","t","e","l">>)

(***************************************************************************)
(* _extract_vs_version: re.search(r'Version (\d+\.\d+\.\d+)', vs_output)   *)
(***************************************************************************)
VersionWord == Text(<<"V","e","r","s","i","o","n"," ">>)

\* end of the maximal run of digits of s starting at p (p-1 when there is none)
DigitsEnd(s, p) ==
    IF p > Len(s) \/ s[p] \notin Digits THEN p - 1
    ELSE CHOOSE e \in p..Len(s) :
            /\ \A k \in p..e : s[k] \in Digits
            /\ (e = Len(s) \/ s[e+1] \notin Digits)

\* the match of \d+\.\d+\.\d+ anchored at p: its end index, or 0 when it fails
\* (\d+ is greedy; giving digits back cannot help, the next character
\* would still be a digit where "." is required)
NumberTripleEnd(s, p) ==
    LET e1 == DigitsEnd(s, p) IN
    IF e1 < p \/ e1 + 1 > Len(s) \/ s[e1 + 1] # Dot THEN 0
    ELSE LET e2 == DigitsEnd(s, e1 + 2) IN
         IF e2 < e1 + 2 \/ e2 + 1 > Len(s) \/ s[e2 + 1] # Dot THEN 0
         ELSE LET e3 == DigitsEnd(s, e2 + 2) IN
              IF e3 < e2 + 2 THEN 0 ELSE e3

\* the pattern matches with "Version " starting at position p
MatchesAt(s, p) ==
    /\ p + Len(VersionWord) - 1 <= Len(s)
    /\ SubSeq(s, p, p + Len(VersionWord) - 1) = VersionWord
    /\ NumberTripleEnd(s, p + Len(VersionWord)) > 0

_extract_vs_version(vs_output) ==
    IF \E p \in 1..Len(vs_output) : MatchesAt(vs_output, p)
    THEN LET p == CHOOSE q \in 1..Len(vs_output) :
                     /\ MatchesAt(vs_output, q)
                     /\ \A r \in 1..(q-1) : ~MatchesAt(vs_output, r)
             b == p + Len(VersionWord)
         IN  SubSeq(vs_output, b, NumberTripleEnd(vs_output, b))
    ELSE Unknown

(***************************************************************************)
(* Host behaviour: what a version query does when run.                     *)
(* exc is the exception subprocess.run raises (None: it returns), and      *)
(* returncode, stdout, stderr are the fields of the CompletedProcess.      *)
(***************************************************************************)
Result(exc, returncode, stdout, stderr) ==
    [exc |-> exc, returncode |-> returncode, stdout |-> stdout, stderr |-> stderr]

Exceptions == {"TimeoutExpired", "OSError"}

O_version == Text(<<"1","1",".","4","\n","F","S","F">>)
O_blankFirst == Text(<<"\n","1","1">>)
E_banner == Text(<<"f","o","r"," ","V","e","r","s","i","o","n"," ","1","9",".","3","0",".","1"," ","x","6","4">>)
E_partial == Text(<<"V","e","r","s","i","o","n"," ","1","9",".","3">>)
E_usage == Text(<<"u","s","a","g","e">>)
\* "Version " and 19.30.1 in Extended Arabic-Indic digits (U+06F0 to U+06F9)
E_arabicIndic == VersionWord \o <<1777, 1785, 46, 1779, 1776, 46, 1777>>

StdoutSamples == {<<>>, O_version, O_blankFirst}
StderrSamples == {<<>>, E_banner, E_partial, E_usage, E_arabicIndic}
ReturnCodes == {0, 1}

Raises == {Result(e, 0, <<>>, <<>>) : e \in Exceptions}

\* every behaviour of "<command> --version" the model considers
AllVersionResults ==
    Raises \cup {Result(None, rc, o, <<>>) : rc \in ReturnCodes, o \in StdoutSamples}

\* every behaviour of "cl" the model considers
AllClResults ==
    Raises \cup {Result(None, rc, <<>>, e) : rc \in ReturnCodes, e \in StderrSamples}

\* the behaviours kept in the full-run specification: one per shape of catalog
RunVersionResults ==
    {Result("OSError", 0, <<>>, <<>>), Result(None, 0, O_version, <<>>)}
RunClResults ==
    {Result("TimeoutExpired", 0, <<>>, <<>>), Result(None, 0, <<>>, E_banner),
     Result(None, 1, <<>>, E_usage)}

(***************************************************************************)
(* CompilerDetector                                                        *)
(***************************************************************************)
\* vs_paths, in list order (the drive and directory prefix is abbreviated)
vs_paths == <<"VS/2022/Community/vcvars64.bat",
              "VS/2022/Professional/vcvars64.bat",
              "VS/2022/Enterprise/vcvars64.bat",
              "VS/2019/Community/vcvars64.bat">>

\* a compiler dict; setup = None stands for a dict without the "setup" key
Compiler(name, command, version, type, priority, path, setup) ==
    [name |-> name, command |-> command, version |-> version, type |-> type,
     priority |-> priority, path |-> path, setup |-> setup]

\* shutil.which(cmd): truthy iff the command resolves; the resolved path is
\* represented by the command name it resolves
which(cmd) == IF cmd \in onPath THEN cmd ELSE None

\* python: x if result.stdout else "Unknown", with x = stdout.split('\n')[0]
VersionFromStdout(stdout) == IF stdout # <<>> THEN FirstLine(stdout) ELSE Unknown

\* the common shape of _detect_mingw/_detect_clang_windows/_detect_gcc/
\* _detect_clang_unix/_detect_intel_compiler once the command resolved:
\* try: run, take the version, return the dict; except: the dict with "Unknown"
ProbeVersion(name, command, type, priority) ==
    LET r == probes[command] IN
    IF r.exc # None
    THEN Compiler(name, command, Unknown, type, priority, which(command), None)
    ELSE Compiler(name, command, VersionFromStdout(r.stdout), type, priority,
                  which(command), None)

\* the try/except around running "cl" (lines 86-106)
ClOnPath ==
    LET r == probes["cl"] IN
    IF r.exc # None
    THEN <<Compiler("Visual Studio C++", "cl", Unknown, T_msvc, 1, which("cl"), None)>>
    ELSE IF r.returncode = 0
         THEN <<Compiler("Visual Studio C++", "cl", _extract_vs_version(r.stderr),
                         T_msvc, 1, which("cl"), None)>>
         ELSE << >>

\* mutant: the loop over vs_paths lacks its break, every existing path is kept
VsInstalledNoBreak ==
    LET nth(k) == CHOOSE i \in vsExisting :
                      Cardinality({j \in vsExisting : j < i}) = k - 1
    IN  [k \in 1..Cardinality(vsExisting) |->
            Compiler("Visual Studio C++", "cl", Text(<<"2","0","2","2">>), T_msvc, 1,
                     vs_paths[nth(k)], vs_paths[nth(k)])]

\* the loop over vs_paths (lines 116-127): the first existing one, then break
VsInstalled ==
    IF \E i \in DOMAIN vs_paths : i \in vsExisting
    THEN LET i == CHOOSE k \in DOMAIN vs_paths :
                     k \in vsExisting /\ \A j \in 1..(k-1) : j \notin vsExisting
         IN  <<Compiler("Visual Studio C++", "cl", Text(<<"2","0","2","2">>), T_msvc, 1,
                        vs_paths[i], vs_paths[i])>>
    ELSE << >>

\* mutant: the installation paths are checked before the search path
DetectVisualStudioInstalledFirst ==
    VsInstalled \o (IF which("cl") # None THEN ClOnPath ELSE << >>)

_detect_visual_studio ==
    (IF which("cl") # None THEN ClOnPath ELSE << >>) \o VsInstalled

\* mutant: MinGW ranked like MSVC
DetectMingwPriorityOne ==
    IF which("gcc") # None /\ which("g++") # None
    THEN <<ProbeVersion("MinGW/GCC", "g++", T_gcc, 1)>>
    ELSE << >>

\* a list of zero or one dict stands for Optional[Dict]
_detect_mingw ==
    IF which("gcc") # None /\ which("g++") # None
    THEN <<ProbeVersion("MinGW/GCC", "g++", T_gcc, 2)>>
    ELSE << >>

_detect_clang_windows ==
    IF which("clang++") # None
    THEN <<ProbeVersion("Clang", "clang++", T_clang, 2)>>
    ELSE << >>

_detect_gcc ==
    IF which("g++") # None
    THEN <<ProbeVersion("GCC", "g++", T_gcc, 2)>>
    ELSE << >>

\* mutant: Clang ranked on Unix as it is on Windows
DetectClangUnixPriorityTwo ==
    IF which("clang++") # None
    THEN <<ProbeVersion("Clang", "clang++", T_clang, 2)>>
    ELSE << >>

_detect_clang_unix ==
    IF which("clang++") # None
    THEN <<ProbeVersion("Clang", "clang++", T_clang, 1)>>
    ELSE << >>

_detect_intel_compiler ==
    IF which("icpc") # None
    THEN <<ProbeVersion("Intel C++ Compiler", "icpc", T_intel, 1)>>
    ELSE << >>

_detect_windows_compilers ==
    _detect_visual_studio \o _detect_mingw \o _detect_clang_windows

\* mutant: the Unix probes run in priority order instead of the listed order
DetectUnixClangFirst ==
    _detect_clang_unix \o _detect_intel_compiler \o _detect_gcc

_detect_unix_compilers ==
    _detect_gcc \o _detect_clang_unix \o _detect_intel_compiler

detect_compilers ==
    IF system = "windows" THEN _detect_windows_compilers
    ELSE _detect_unix_compilers

(***************************************************************************)
(* CppBuilder                                                              *)
(***************************************************************************)
\* what the environment does with one call of _build_with_compiler:
\* bin_dir.mkdir raises ("mkdir_error"), or the compile command exits 0
\* ("exit0"), exits non-zero ("nonzero"), cannot be started ("exception"),
\* or exceeds timeout=60 ("timeout": subprocess.TimeoutExpired)
BuildOutcomes == {"mkdir_error", "exit0", "nonzero", "exception", "timeout"}

KnownTypes == {T_msvc, T_gcc, T_clang, T_intel}

\* mutant: the output directory is not created
MkdirBinSkipped(outcome) == binDir

\* bin_dir.mkdir(parents=True, exist_ok=True): the directories exist
\* afterwards unless it raised. MkdirBuild is the set of the states build/
\* can be left in: parents=True creates build/ first, so a call that raises
\* has either created nothing (build/ could not be made) or has made build/
\* and failed on build/bin
MkdirBuild(outcome) == IF outcome = "mkdir_error" THEN {buildDir, TRUE} ELSE {TRUE}
MkdirBin(outcome) == IF outcome = "mkdir_error" THEN binDir ELSE TRUE

\* subprocess.run of the compile command is reached: mkdir did not raise and
\* the type selects one of the four _build_with_* methods
Invokes(compiler, outcome) ==
    outcome # "mkdir_error" /\ compiler.type \in KnownTypes

\* the value _build_with_compiler returns: True only for returncode == 0;
\* every exception is caught by "except Exception" and gives False
_build_with_compiler(compiler, outcome) ==
    Invokes(compiler, outcome) /\ outcome = "exit0"

\* the arguments every compile command shares with the others of its family
\* (script_dir and bin_dir are written relative to the script's directory)
SourceFile == "tools/font_compiler_main.cpp"

UnixStyleCommand(compiler) ==
    <<compiler.command, "-std=c++17", "-O2", "-DNDEBUG", "-Wall",
      "-Iinclude", "-Iintegration", "-o", "build/bin/font_compiler", SourceFile>>

\* _build_with_msvc: full_cmd, the setup call and the compile command joined
\* into one shell command line
MsvcCommand(compiler) ==
    (IF compiler.setup # None THEN <<"call", compiler.setup, "&&">> ELSE << >>)
    \o <<"cl", "/EHsc", "/O2", "/DNDEBUG", "/W3", "/Iinclude", "/Iintegration",
         "/Fe:build/bin/font_compiler.exe", SourceFile>>
    \o (IF system = "windows"
        THEN <<"/link", "kernel32.lib", "user32.lib", "gdi32.lib", "opengl32.lib">>
        ELSE << >>)

\* _build_with_gcc: compile_cmd
GccCommand(compiler) ==
    UnixStyleCommand(compiler)
    \o (IF system = "windows"
        THEN <<"-lkernel32", "-luser32", "-lgdi32", "-lopengl32">>
        ELSE IF system = "linux" THEN <<"-lm", "-lpthread">>
        ELSE << >>)

\* _build_with_clang: compile_cmd
ClangCommand(compiler) ==
    UnixStyleCommand(compiler)
    \o (IF system = "windows"
        THEN <<"-lkernel32", "-luser32", "-lgdi32", "-lopengl32">>
        ELSE IF system = "linux" THEN <<"-lm", "-lpthread">>
        ELSE IF system = "darwin"
        THEN <<"-framework", "OpenGL", "-framework", "Cocoa">>
        ELSE << >>)

\* _build_with_intel: compile_cmd (no libraries are added)
IntelCommand(compiler) == UnixStyleCommand(compiler)

\* the command the dispatch of _build_with_compiler runs for the compiler
BuildCommand(compiler) ==
    IF compiler.type = T_msvc THEN MsvcCommand(compiler)
    ELSE IF compiler.type = T_gcc THEN GccCommand(compiler)
    ELSE IF compiler.type = T_clang THEN ClangCommand(compiler)
    ELSE IF compiler.type = T_intel THEN IntelCommand(compiler)
    ELSE << >>

\* the history record of one call of _build_with_compiler
Attempt(compiler, outcome) ==
    [compiler |-> compiler, outcome |-> outcome,
     invoked |-> Invokes(compiler, outcome),
     binDir |-> MkdirBin(outcome),
     command |-> IF Invokes(compiler, outcome) THEN BuildCommand(compiler) ELSE << >>,
     shell |-> Invokes(compiler, outcome) /\ compiler.type = T_msvc,
     ok |-> _build_with_compiler(compiler, outcome)]

\* mutant: the list is left in discovery order
InsertUnsorted(sorted, c) == Append(sorted, c)

\* mutant: an unstable sort, a compiler goes before those of equal priority
InsertBeforeEqual(sorted, c) ==
    LET k == Cardinality({i \in DOMAIN sorted : sorted[i].priority < c.priority})
    IN  SubSeq(sorted, 1, k) \o <<c>> \o SubSeq(sorted, k + 1, Len(sorted))

\* compilers.sort(key=lambda x: x["priority"]): list.sort is stable
InsertByPriority(sorted, c) ==
    LET k == Cardinality({i \in DOMAIN sorted : sorted[i].priority <= c.priority})
    IN  SubSeq(sorted, 1, k) \o <<c>> \o SubSeq(sorted, k + 1, Len(sorted))

RECURSIVE SortByPriority(_)
SortByPriority(cs) ==
    IF cs = << >> THEN << >>
    ELSE InsertByPriority(SortByPriority(SubSeq(cs, 1, Len(cs) - 1)), cs[Len(cs)])

\* mutant: the loop does not return on success while compilers remain
AfterAttemptKeepsGoing(ok, i, n) ==
    IF i < n THEN "next" ELSE IF ok THEN "succeeded" ELSE "failed"

\* mutant: the first failed attempt ends the loop
AfterAttemptAborts(ok, i, n) ==
    IF ok THEN "succeeded" ELSE "failed"

\* mutant: a failed compiler is tried again
NextIndexRetries(i) == i

\* "for compiler in compilers": the position after position i
NextIndex(i) == i + 1

\* where the for loop of build_with_best_compiler goes after the attempt on
\* compilers[i] of n: return True, the next iteration, or fall out of the
\* loop and return False
AfterAttempt(ok, i, n) ==
    IF ok THEN "succeeded" ELSE IF i < n THEN "next" ELSE "failed"

\* mutant: an attempt that failed moves its descriptor to the end of the list
CompilersFailedMovedLast(cs, i, ok) ==
    IF ok THEN cs
    ELSE SubSeq(cs, 1, i - 1) \o SubSeq(cs, i + 1, Len(cs)) \o <<cs[i]>>

\* the list after _build_with_compiler(cs[i]) has returned ok: neither it nor
\* the _build_with_* method it dispatches to assigns to the list or to a key
\* of the descriptor, they only read "type", "command" and "setup"
CompilersAfterAttempt(cs, i, ok) == cs

\* the no-compilers guidance of build_with_best_compiler (lines 292-300)
Guidance ==
    IF system = "windows" THEN "guidance_windows" ELSE "guidance_unix"

(***************************************************************************)
(* main                                                                    *)
(***************************************************************************)
\* "if args.force:" : the flag was given and its value is not the empty string
ForceRequested == force.given /\ force.value # << >>

\* main is over: it has returned, or an exception left it
Terminated == pc \in {"done", "crashed"}

\* "sys.exit(main())": the exit status of the process is the value main
\* returned, and 1 when an uncaught exception ended the interpreter
ProcessExitCode == IF pc = "crashed" THEN 1 ELSE exitCode

\* the value main returns for the build result (lines 517-528)
ExitCodeFor(success) == IF success THEN 0 ELSE 1

\* the value main returns from the --list branch (line 490)
ListExitCode(cs) == 0

\* control passes line 490 only when --list was not given: the --list branch
\* ends in "return 0"
PastListBranch == ~list

\* mutant: the type is compared without lower-casing
TargetCompilerCaseSensitive(cs, arg) ==
    IF \E i \in DOMAIN cs : cs[i].type = arg
    THEN <<cs[CHOOSE i \in DOMAIN cs :
                 /\ cs[i].type = arg
                 /\ \A j \in 1..(i-1) : cs[j].type # arg]>>
    ELSE << >>

\* the loop of lines 502-505: the first compiler whose lower-cased type equals
\* the lower-cased argument, as a list of zero or one
TargetCompiler(cs, arg) ==
    IF \E i \in DOMAIN cs : Lower(cs[i].type) = Lower(arg)
    THEN <<cs[CHOOSE i \in DOMAIN cs :
                 /\ Lower(cs[i].type) = Lower(arg)
                 /\ \A j \in 1..(i-1) : Lower(cs[j].type) # Lower(arg)]>>
    ELSE << >>

\* what _build_with_compiler prints for one call
AttemptMessages(compiler, outcome) ==
    IF outcome = "mkdir_error" THEN <<"build_exception">>
    ELSE IF compiler.type \notin KnownTypes THEN <<"unknown_type">>
    ELSE IF outcome \in {"exception", "timeout"} THEN <<"build_exception">>
    ELSE IF outcome = "nonzero" THEN <<"debug_error">>
    ELSE << >>

\* what main prints after the build (lines 517-527)
FinalMessages(success) ==
    IF success THEN <<"built_successfully">> ELSE <<"build_failed">>

(***************************************************************************)
(* Initial states: a host, a command line and a build directory.           *)
(***************************************************************************)
\* the commands the probes of the detected family look up
ProbedCommands(sys) ==
    IF sys = "windows" THEN {"cl", "gcc", "g++", "clang++"}
    ELSE {"g++", "clang++", "icpc"}

\* the commands a probe runs once they resolve ("gcc" is only looked up)
QueriedCommands(path) == path \ {"gcc"}

\* the values of --force: absent, empty, exact, other case, unknown kind, and
\* "INTEL" written with U+0130, the capital I with a dot above
ForceValues ==
    {[given |-> FALSE, value |-> << >>]} \cup
    {[given |-> TRUE, value |-> v] :
        v \in {<< >>, T_gcc, Text(<<"C","l","a","n","g">>), Text(<<"M","S","V","C">>),
               T_intel, Text(<<"t","c","c">>), <<304>> \o Text(<<"N","T","E","L">>)}}

InitHost(clResults, versionResults, maxVs) ==
    /\ system \in {"windows", "linux", "darwin"}
    /\ onPath \in SUBSET ProbedCommands(system)
    /\ vsExisting \in
          IF system = "windows"
          THEN {v \in SUBSET (DOMAIN vs_paths) : Cardinality(v) <= maxVs}
          ELSE {{}}
    /\ probes \in {f \in [QueriedCommands(onPath) -> clResults \cup versionResults] :
                      \A c \in DOMAIN f :
                          f[c] \in (IF c = "cl" THEN clResults ELSE versionResults)}

InitRun ==
    /\ pc = "start"
    /\ compilers = << >>
    /\ idx = 1
    /\ log = << >>
    /\ out = << >>
    /\ exitCode = -1

Init ==
    /\ InitHost(RunClResults, RunVersionResults, MaxVsInstalled)
    /\ list \in BOOLEAN
    /\ clean \in BOOLEAN
    /\ force \in ForceValues
    /\ buildDir \in BOOLEAN
    /\ binDir \in {b \in BOOLEAN : b => buildDir}
    /\ InitRun

(***************************************************************************)
(* Steps of main.                                                          *)
(***************************************************************************)
\* what shutil.rmtree(build_dir) does: it removes the tree, or it raises
\* (build is a file or a symbolic link, or an entry cannot be removed)
RmtreeOutcomes == {"removed", "raised"}

\* lines 473-479: "if args.clean:" remove the build directory when it exists.
\* main does not catch what rmtree raises: the run ends there ("crashed")
\* without a return value, with build/ in place and, when the failure came
\* after entries had been removed, possibly without build/bin
Clean ==
    /\ pc = "start"
    /\ IF clean /\ buildDir
       THEN \E rmtree \in RmtreeOutcomes :
               IF rmtree = "removed"
               THEN /\ buildDir' = FALSE
                    /\ binDir' = FALSE
                    /\ out' = out \o <<"cleaning", "cleaned">>
                    /\ pc' = "cleaned"
               ELSE /\ buildDir' = buildDir
                    /\ binDir' \in {binDir, FALSE}
                    /\ out' = out \o <<"cleaning">>
                    /\ pc' = "crashed"
       ELSE /\ pc' = "cleaned"
            /\ UNCHANGED <<buildDir, binDir, out>>
    /\ UNCHANGED <<hostVars, argVars, compilers, idx, log, exitCode>>

\* lines 481-490: "if args.list:" detect, print, return 0
ListCompilers ==
    /\ pc = "cleaned"
    /\ list
    /\ compilers' = detect_compilers
    /\ out' = out \o (IF compilers' # << >> THEN <<"available">>
                      ELSE <<"no_compilers_found">>)
    /\ exitCode' = ListExitCode(compilers')
    /\ pc' = "done"
    /\ UNCHANGED <<hostVars, argVars, buildDir, binDir, idx, log>>

\* lines 498-512 and 517-528: "if args.force:" detect, pick the first compiler
\* of the requested type, build with it alone
ForceBuild ==
    /\ pc = "cleaned"
    /\ PastListBranch
    /\ ForceRequested
    /\ LET found == detect_compilers
           target == TargetCompiler(found, force.value)
       IN
       IF target = << >>
       THEN /\ compilers' = found
            /\ out' = out \o <<"header", "not_found">>
            /\ exitCode' = 1
            /\ UNCHANGED <<buildDir, binDir, log>>
       ELSE \E outcome \in BuildOutcomes :
               LET success == _build_with_compiler(target[1], outcome)
                   k == CHOOSE i \in DOMAIN found : found[i] = target[1]
               IN
               /\ compilers' = CompilersAfterAttempt(found, k, success)
               /\ buildDir' \in MkdirBuild(outcome)
               /\ binDir' = MkdirBin(outcome)
               /\ log' = Append(log, Attempt(target[1], outcome))
               /\ out' = out \o <<"header", "using_forced">>
                             \o AttemptMessages(target[1], outcome)
                             \o FinalMessages(success)
               /\ exitCode' = ExitCodeFor(success)
    /\ pc' = "done"
    /\ UNCHANGED <<hostVars, argVars, idx>>

\* line 515 into build_with_best_compiler, lines 287-308: detect; with no
\* compiler print the guidance and return False (main then returns 1),
\* otherwise sort by priority and enter the loop
AutoDetect ==
    /\ pc = "cleaned"
    /\ PastListBranch
    /\ ~ForceRequested
    /\ LET found == detect_compilers IN
       IF found = << >>
       THEN /\ compilers' = found
            /\ out' = out \o <<"header", "no_compilers", Guidance>>
                          \o FinalMessages(FALSE)
            /\ exitCode' = ExitCodeFor(FALSE)
            /\ pc' = "done"
       ELSE /\ compilers' = SortByPriority(found)
            /\ out' = out \o <<"header", "found">>
            /\ exitCode' = exitCode
            /\ pc' = "try"
    /\ idx' = 1
    /\ UNCHANGED <<hostVars, argVars, buildDir, binDir, log>>

\* one iteration of the loop of lines 311-317 on compilers[idx], with lines
\* 319-320 and main's lines 517-528 when the loop ends
TryNext ==
    /\ pc = "try"
    /\ \E outcome \in BuildOutcomes :
          LET compiler == compilers[idx]
              success == _build_with_compiler(compiler, outcome)
              after == AfterAttempt(success, idx, Len(compilers))
          IN
          /\ compilers' = CompilersAfterAttempt(compilers, idx, success)
          /\ buildDir' \in MkdirBuild(outcome)
          /\ binDir' = MkdirBin(outcome)
          /\ log' = Append(log, Attempt(compiler, outcome))
          /\ IF after = "succeeded"
             THEN /\ out' = out \o <<"trying">> \o AttemptMessages(compiler, outcome)
                                \o <<"ok_built_with">> \o FinalMessages(TRUE)
                  /\ exitCode' = ExitCodeFor(TRUE)
                  /\ pc' = "done"
                  /\ idx' = idx
             ELSE IF after = "next"
             THEN /\ out' = out \o <<"trying">> \o AttemptMessages(compiler, outcome)
                                \o <<"warning_failed">>
                  /\ exitCode' = exitCode
                  /\ pc' = "try"
                  /\ idx' = NextIndex(idx)
             ELSE /\ out' = out \o <<"trying">> \o AttemptMessages(compiler, outcome)
                                \o <<"warning_failed", "all_failed">>
                                \o FinalMessages(FALSE)
                  /\ exitCode' = ExitCodeFor(FALSE)
                  /\ pc' = "done"
                  /\ idx' = idx
    /\ UNCHANGED <<hostVars, argVars>>

Next == Clean \/ ListCompilers \/ ForceBuild \/ AutoDetect \/ TryNext

Spec == Init /\ [][Next]_vars

(***************************************************************************)
(* A --list run on any host: detection alone, over every behaviour of the  *)
(* version queries and every set of existing Visual Studio paths.          *)
(***************************************************************************)
InitList ==
    /\ InitHost(AllClResults, AllVersionResults, Len(vs_paths))
    /\ list = TRUE
    /\ clean = FALSE
    /\ force = [given |-> FALSE, value |-> << >>]
    /\ buildDir = FALSE
    /\ binDir = FALSE
    /\ InitRun

NextList == Clean \/ ListCompilers

SpecList == InitList /\ [][NextList]_vars

(***************************************************************************)
(* Properties.                                                             *)
(***************************************************************************)
AutoMode == ~list /\ ~ForceRequested

Invocations == {i \in DOMAIN log : log[i].invoked}

\* C1: in automatic mode the build invocations are made in non-decreasing
\* priority order: if A is invoked before B then priority(A) <= priority(B).
C1_InvocationsInPriorityOrder ==
    AutoMode =>
        \A i, j \in Invocations :
            i < j => log[i].compiler.priority <= log[j].compiler.priority

\* C1 witness: two invocations of different priority whose order is the
\* reverse of the discovery order.
C1_Witness ==
    /\ AutoMode
    /\ compilers # detect_compilers
    /\ \E i, j \in Invocations :
          i < j /\ log[i].compiler.priority < log[j].compiler.priority

\* C2: once a build invocation returns exit code 0 the run is over with
\* success: that invocation is the last one, main has returned 0, and the
\* compilers after it are never tried.
C2_StopsAtFirstSuccess ==
    \A i \in Invocations :
        log[i].outcome = "exit0" =>
            /\ i = Len(log)
            /\ pc = "done"
            /\ exitCode = 0

\* C2 witness: a run that succeeded while a compiler of lower preference was
\* still untried.
C2_Witness ==
    /\ AutoMode
    /\ pc = "done"
    /\ log # << >>
    /\ log[Len(log)].outcome = "exit0"
    /\ Len(log) < Len(compilers)
    /\ compilers[Len(compilers)].priority > log[Len(log)].compiler.priority

\* C3: in automatic mode a failed attempt (non-zero exit, exception, timeout)
\* does not end the run while a compiler remains: the attempts follow the
\* ordered list one by one, and the run fails only after every compiler of
\* the list was attempted without an exit code 0.
C3_FallsBackUntilExhausted ==
    AutoMode =>
        /\ Len(log) <= Len(compilers)
        /\ \A i \in DOMAIN log : log[i].compiler = compilers[i]
        /\ (pc = "try" => idx = Len(log) + 1 /\ idx <= Len(compilers))
        /\ (pc = "done" /\ log # << >> /\ ~log[Len(log)].ok =>
               Len(log) = Len(compilers))
        /\ (pc = "done" /\ exitCode = 1 /\ compilers # << >> =>
               /\ Len(log) = Len(compilers)
               /\ \A i \in DOMAIN log : ~log[i].ok)

\* C3 witness: a failed run of three attempts that saw a non-zero exit, an
\* exception and a timeout.
C3_Witness ==
    /\ AutoMode
    /\ pc = "done"
    /\ exitCode = 1
    /\ Len(log) >= 3
    /\ {"nonzero", "exception", "timeout"} \subseteq {log[i].outcome : i \in DOMAIN log}

\* C4: with a forced kind given that no detected compiler has (compared
\* case-insensitively) the run makes no build invocation and exits with
\* code 1. (The claim's "reports not found" is left out: the two parts stated
\* here already fail.)
C4_ForcedKindNotFound ==
    (/\ pc = "done"
     /\ ~list
     /\ force.given
     /\ TargetCompiler(detect_compilers, force.value) = << >>)
    => (/\ Invocations = {}
        /\ exitCode = 1)

\* C5: whenever detection yields an empty catalog the build run, with or
\* without a forced kind, ends in failure without any build command and with
\* the installation guidance of the detected OS family printed.
C5_EmptyCatalogGuidance ==
    (pc = "done" /\ ~list /\ detect_compilers = << >>)
    => (/\ log = << >>
        /\ exitCode = 1
        /\ \E k \in DOMAIN out : out[k] = Guidance)

\* C6: for every kind probed, when its command resolves on the search path
\* the catalog holds a descriptor of that kind, whatever the version query
\* did (raised, timed out or exited non-zero).
C6_ResolvedCommandIsDetected ==
    pc = "done" =>
        LET has(type) == \E i \in DOMAIN compilers : compilers[i].type = type IN
        /\ (system = "windows" /\ "cl" \in onPath => has(T_msvc))
        /\ (system = "windows" /\ {"gcc", "g++"} \subseteq onPath => has(T_gcc))
        /\ (system # "windows" /\ "g++" \in onPath => has(T_gcc))
        /\ ("clang++" \in onPath => has(T_clang))
        /\ (system # "windows" /\ "icpc" \in onPath => has(T_intel))

\* C7: a --list run only detects: with any combination of the other flags
\* it makes no build attempt, never enters the build loop, and the process
\* exits with code 0 whether the catalog is empty or not.
C7_ListNeverBuilds ==
    list =>
        /\ log = << >>
        /\ pc # "try"
        /\ (Terminated => ProcessExitCode = 0)

\* C8: at every build invocation build/bin exists, also right after --clean
\* removed the build directory and for the later attempts of the loop; it
\* still exists after the invocation.
C8_BinDirExistsAtInvocation ==
    /\ \A i \in Invocations : log[i].binDir
    /\ (log # << >> /\ log[Len(log)].invoked => binDir /\ buildDir)

\* C8 witness: --clean removed an existing build directory and two builds
\* were invoked afterwards.
C8_Witness ==
    /\ clean
    /\ \E k \in DOMAIN out : out[k] = "cleaned"
    /\ Len(log) >= 2
    /\ log[1].invoked
    /\ log[2].invoked

\* C9: the process exit code is 0 exactly when the run is a --list run or a
\* build invocation returned exit code 0, and 1 in every other run that ends.
C9_ExitCode ==
    Terminated =>
        /\ ProcessExitCode \in {0, 1}
        /\ ProcessExitCode = 0 <=>
              (list \/ \E i \in Invocations : log[i].outcome = "exit0")

\* C10 as stated: no two descriptors of different kinds share a priority.
C10_StrictPriority ==
    \A i, j \in DOMAIN compilers :
        compilers[i].type # compilers[j].type =>
            compilers[i].priority # compilers[j].priority

\* C10 amended: two descriptors of different kinds share a priority only when
\* they are MinGW/GCC and Clang on Windows (both 2) or Clang and Intel
\* elsewhere (both 1).
C10_PriorityTiesOnlyBetweenPeers ==
    \A i, j \in DOMAIN compilers :
        (/\ compilers[i].type # compilers[j].type
         /\ compilers[i].priority = compilers[j].priority)
        => \/ /\ system = "windows"
              /\ {compilers[i].type, compilers[j].type} = {T_gcc, T_clang}
              /\ compilers[i].priority = 2
           \/ /\ system # "windows"
              /\ {compilers[i].type, compilers[j].type} = {T_clang, T_intel}
              /\ compilers[i].priority = 1

\* C10 witness: a Windows catalog holding MSVC, MinGW/GCC and Clang.
C10_Witness ==
    /\ system = "windows"
    /\ {T_msvc, T_gcc, T_clang} \subseteq {compilers[i].type : i \in DOMAIN compilers}

TypesOf(cs) == {cs[i].type : i \in DOMAIN cs}

\* C11: in automatic mode the platform's preference overrides the discovery
\* order. Unix: with GCC and Clang both detected Clang is attempted first and
\* GCC only after a failed Clang attempt. Windows: every detected MSVC
\* descriptor is attempted before any GCC or Clang one. With exactly GCC and
\* Clang on Unix, a failed Clang invocation followed by a GCC exit 0 ends in
\* success after exactly two invocations.
C11_PlatformPreference ==
    AutoMode =>
        LET found == detect_compilers IN
        /\ (system # "windows" /\ {T_gcc, T_clang} \subseteq TypesOf(found)) =>
              /\ (log # << >> => log[1].compiler.type = T_clang)
              /\ \A j \in DOMAIN log :
                    log[j].compiler.type = T_gcc =>
                        \E i \in 1..(j-1) :
                            log[i].compiler.type = T_clang /\ ~log[i].ok
        /\ system = "windows" =>
              \A j \in DOMAIN log :
                  log[j].compiler.type \in {T_gcc, T_clang} =>
                      \A k \in DOMAIN found :
                          found[k].type = T_msvc =>
                              \E i \in 1..(j-1) : log[i].compiler = found[k]
        /\ (/\ system # "windows"
            /\ Len(found) = 2
            /\ TypesOf(found) = {T_gcc, T_clang}
            /\ log # << >>
            /\ log[1].invoked
            /\ \E j \in DOMAIN log :
                  log[j].compiler.type = T_gcc /\ log[j].outcome = "exit0") =>
              /\ pc = "done"
              /\ exitCode = 0
              /\ Len(log) = 2
              /\ Cardinality(Invocations) = 2

\* C11 witness: the two-toolchain Unix scenario: Clang exits non-zero, then
\* GCC exits 0.
C11_Witness ==
    /\ AutoMode
    /\ system # "windows"
    /\ Len(detect_compilers) = 2
    /\ detect_compilers[1].type = T_gcc
    /\ Len(log) = 2
    /\ log[1].compiler.type = T_clang
    /\ log[1].outcome = "nonzero"
    /\ log[2].compiler.type = T_gcc
    /\ log[2].outcome = "exit0"
    /\ pc = "done"

\* the forced kind equals the type of some detected compiler, case-insensitively
ForcedKindDetected ==
    LET found == detect_compilers IN
    \E i \in DOMAIN found : Lower(found[i].type) = Lower(force.value)

\* C12: in forced mode with a matching descriptor the list is not ranked and
\* exactly one build attempt is made, on the first descriptor in discovery
\* order whose kind equals the forced kind case-insensitively; when it fails
\* the run returns 1 without trying any other detected compiler.
C12_ForcedBuildsOnlyTheMatch ==
    (PastListBranch /\ ForceRequested /\ pc = "done" /\ ForcedKindDetected) =>
        /\ compilers = detect_compilers
        /\ Len(log) = 1
        /\ Lower(log[1].compiler.type) = Lower(force.value)
        /\ \E i \in DOMAIN compilers :
              /\ compilers[i] = log[1].compiler
              /\ \A j \in 1..(i-1) : Lower(compilers[j].type) # Lower(force.value)
        /\ (log[1].ok <=> exitCode = 0)
        /\ (~log[1].ok <=> exitCode = 1)

\* C12 witness: --force Clang on a host with other compilers detected before
\* Clang; the Clang build fails and the run ends with 1.
C12_Witness ==
    /\ PastListBranch
    /\ ForceRequested
    /\ force.value # Lower(force.value)
    /\ pc = "done"
    /\ Len(compilers) >= 2
    /\ compilers[1].type # Lower(force.value)
    /\ Len(log) = 1
    /\ log[1].outcome = "timeout"
    /\ exitCode = 1

\* the arguments of a compile command that follow the source file
LinkArguments(command) ==
    LET k == CHOOSE i \in DOMAIN command : command[i] = SourceFile
    IN  SubSeq(command, k + 1, Len(command))

\* C13: the link libraries of a build command depend on the OS family and the
\* kind: Windows, the four OS libraries for every kind; Linux, the math and
\* threading libraries for every kind (GCC, Clang and Intel alike); macOS, the
\* OpenGL and Cocoa frameworks for Clang only and nothing for GCC.
C13_LinkLibraries ==
    \A i \in Invocations :
        LET libs == LinkArguments(log[i].command)
            type == log[i].compiler.type
        IN
        /\ system = "windows" =>
              libs = IF type = T_msvc
                     THEN <<"/link", "kernel32.lib", "user32.lib", "gdi32.lib",
                            "opengl32.lib">>
                     ELSE <<"-lkernel32", "-luser32", "-lgdi32", "-lopengl32">>
        /\ system = "linux" => libs = <<"-lm", "-lpthread">>
        /\ (system = "darwin" /\ type = T_clang) =>
              libs = <<"-framework", "OpenGL", "-framework", "Cocoa">>
        /\ (system = "darwin" /\ type = T_gcc) => libs = << >>

\* C14: no compiler is tried twice: the attempts are on distinct descriptors,
\* in automatic mode on the list's positions one after the other, so the
\* invocations never outnumber the detected descriptors; an MSVC descriptor
\* with a setup script is run as one shell command holding the setup call and
\* the compile command, with one result for both.
C14_NoRetries ==
    /\ Len(log) <= Len(compilers)
    /\ Cardinality(Invocations) <= Len(detect_compilers)
    /\ \A i, j \in DOMAIN log : i # j => log[i].compiler # log[j].compiler
    /\ AutoMode => \A i \in DOMAIN log : log[i].compiler = compilers[i]
    /\ \A i \in Invocations :
          (log[i].compiler.type = T_msvc /\ log[i].compiler.setup # None) =>
              /\ log[i].shell
              /\ SubSeq(log[i].command, 1, 4) =
                    <<"call", log[i].compiler.setup, "&&", "cl">>
              /\ (log[i].ok <=> log[i].outcome = "exit0")

\* C14 witness: a failed automatic run over three or more descriptors that
\* invoked an MSVC descriptor through its setup script.
C14_Witness ==
    /\ AutoMode
    /\ pc = "done"
    /\ exitCode = 1
    /\ Len(log) >= 3
    /\ Cardinality(Invocations) = Len(compilers)
    /\ \E i \in Invocations : log[i].compiler.setup # None

\* the phases of a run, counted down, and the compilers the loop has left
PhaseRank ==
    IF pc = "start" THEN 3 ELSE IF pc = "cleaned" THEN 2
    ELSE IF pc = "try" THEN 1 ELSE 0

CompilersLeft == IF pc = "try" THEN Len(compilers) - idx + 1 ELSE 0

\* a step of main is possible: the guard of one of its branches holds
CanStep ==
    \/ pc = "start"
    \/ pc = "cleaned" /\ list
    \/ pc = "cleaned" /\ PastListBranch /\ ForceRequested
    \/ pc = "cleaned" /\ PastListBranch /\ ~ForceRequested
    \/ pc = "try" /\ idx \in DOMAIN compilers

\* C15: every run of the orchestrator reaches Succeeded or Failed: while main
\* is not over a step is always possible (no stall), every step either moves
\* to a later phase or stays in the loop with fewer compilers left (no
\* cycle), and once the clean step is past a step leads only into the loop or
\* to the return of main, whatever the catalog and the outcomes of the
\* attempts.
C15_Terminates ==
    /\ [](~Terminated => CanStep)
    /\ [][(pc \in {"cleaned", "try"}) => (pc' \in {"try", "done"})]_vars
    /\ [][\/ PhaseRank' < PhaseRank
          \/ PhaseRank' = PhaseRank /\ CompilersLeft' < CompilersLeft]_vars

\* C15 witness: a run that ended after a timeout, an exception, a non-zero
\* exit and a success.
C15_Witness ==
    /\ pc = "done"
    /\ exitCode = 0
    /\ Len(log) = 4
    /\ {log[i].outcome : i \in 1..3} = {"timeout", "exception", "nonzero"}

\* the position of compiler c in the list found
DiscoveryIndex(found, c) == CHOOSE k \in DOMAIN found : found[k] = c

\* C16: the priority sort is stable: in automatic mode compilers of equal
\* priority are attempted in discovery order (Unix: Clang before Intel;
\* Windows: MinGW/GCC before Clang).
C16_StableSort ==
    (AutoMode /\ pc \in {"try", "done"}) =>
        LET found == detect_compilers IN
        /\ \A i, j \in DOMAIN compilers :
              (i < j /\ compilers[i].priority = compilers[j].priority) =>
                  DiscoveryIndex(found, compilers[i]) < DiscoveryIndex(found, compilers[j])
        /\ \A i \in DOMAIN log : log[i].compiler = compilers[i]

\* C16 witness: on Unix with GCC, Clang and Intel detected, Clang was
\* attempted first and Intel second.
C16_Witness ==
    /\ AutoMode
    /\ system # "windows"
    /\ Len(detect_compilers) = 3
    /\ Len(log) >= 2
    /\ log[1].compiler.type = T_clang
    /\ log[2].compiler.type = T_intel

IsPathMsvc(c) == c.type = T_msvc /\ c.setup = None
IsInstalledMsvc(c) == c.type = T_msvc /\ c.setup # None

\* C17: with MSVC detected both on the search path and through an
\* installation path, the search-path descriptor comes first: in automatic
\* mode it is attempted before the installation-path one, and --force msvc
\* selects it.
C17_PathMsvcFirst ==
    (log # << >> /\ LET found == detect_compilers IN
                    \E k \in DOMAIN found : IsPathMsvc(found[k])) =>
        /\ AutoMode =>
              \A j \in DOMAIN log :
                  IsInstalledMsvc(log[j].compiler) =>
                      \E i \in 1..(j-1) : IsPathMsvc(log[i].compiler)
        /\ (ForceRequested /\ Lower(force.value) = T_msvc) =>
              IsPathMsvc(log[1].compiler)

\* C17 witness: an automatic run that attempted the search-path MSVC first
\* and the installation-path MSVC second.
C17_Witness ==
    /\ AutoMode
    /\ Len(log) >= 2
    /\ IsPathMsvc(log[1].compiler)
    /\ IsInstalledMsvc(log[2].compiler)

\* the place of a kind in the probe list of the OS family
KindRank(type) ==
    IF system = "windows"
    THEN (IF type = T_msvc THEN 1 ELSE IF type = T_gcc THEN 2
          ELSE IF type = T_clang THEN 3 ELSE 0)
    ELSE (IF type = T_gcc THEN 1 ELSE IF type = T_clang THEN 2
          ELSE IF type = T_intel THEN 3 ELSE 0)

\* C18: detect_compilers probes the kinds of the OS family's list once each,
\* in the list's order (Windows: MSVC, MinGW/GCC, Clang; otherwise GCC, Clang,
\* Intel), and returns what it found in that order, not sorted by priority:
\* --list shows the discovery order.
C18_DiscoveryOrder ==
    (list /\ pc = "done") =>
        /\ \A i \in DOMAIN compilers : KindRank(compilers[i].type) >= 1
        /\ \A i, j \in DOMAIN compilers :
              i < j =>
                  \/ KindRank(compilers[i].type) < KindRank(compilers[j].type)
                  \/ compilers[i].type = T_msvc /\ compilers[j].type = T_msvc
        /\ (T_gcc \in TypesOf(compilers) <=>
               IF system = "windows" THEN {"gcc", "g++"} \subseteq onPath
               ELSE "g++" \in onPath)
        /\ (T_clang \in TypesOf(compilers) <=> "clang++" \in onPath)
        /\ (T_intel \in TypesOf(compilers) <=>
               system # "windows" /\ "icpc" \in onPath)

\* C18 witness: a --list run on Unix that found GCC, Clang and Intel, listed
\* in an order that is not the priority order.
C18_Witness ==
    /\ list
    /\ pc = "done"
    /\ system # "windows"
    /\ Len(compilers) = 3
    /\ compilers[1].priority > compilers[2].priority

\* C19: for a command resolved on the search path the version is the first
\* line of the query's stdout when that line is usable, and "Unknown" when the
\* query exits non-zero, raises, times out, prints nothing or prints an empty
\* first line.
C19_VersionOrUnknown ==
    pc = "done" =>
        \A i \in DOMAIN compilers :
            compilers[i].type # T_msvc =>
                LET r == probes[compilers[i].command]
                    line == FirstLine(r.stdout)
                IN  IF r.exc # None \/ r.returncode # 0 \/ line = << >>
                    THEN compilers[i].version = Unknown
                    ELSE compilers[i].version = line

InstalledMsvc == {i \in DOMAIN compilers : compilers[i].setup # None}

\* C20: the MSVC probe yields at most one installation-path descriptor, and
\* one iff some path of the well-known list exists; its setup script is the
\* first existing path of the list, its priority 1, and it does not depend on
\* cl being on the search path (the catalog may hold two MSVC descriptors).
C20_OneInstalledMsvc ==
    pc = "done" =>
        /\ Cardinality(InstalledMsvc) <= 1
        /\ (InstalledMsvc # {} <=> (system = "windows" /\ vsExisting # {}))
        /\ \A i \in InstalledMsvc :
              /\ compilers[i].type = T_msvc
              /\ compilers[i].priority = 1
              /\ \E k \in vsExisting :
                    /\ compilers[i].setup = vs_paths[k]
                    /\ compilers[i].path = vs_paths[k]
                    /\ \A j \in vsExisting : k <= j

\* C20 witness: two MSVC descriptors, one from the search path and one from
\* the second of three existing installation paths.
C20_Witness ==
    /\ pc = "done"
    /\ vsExisting = {2, 3, 4}
    /\ Len(compilers) >= 2
    /\ IsPathMsvc(compilers[1])
    /\ compilers[2].setup = vs_paths[2]

\* the list as it was built: detection order in forced mode, sorted by
\* priority in automatic mode
CandidatesAsBuilt ==
    LET found == detect_compilers IN
    IF ForceRequested THEN found ELSE SortByPriority(found)

\* C21: build attempts leave the candidate data unchanged: from the moment
\* the candidate list is built until the run ends no attempt, successful or
\* failed, adds, removes, reorders or modifies a descriptor (the list stays
\* the one that was built and every attempted descriptor is still in it), and
\* an attempt changes nothing of the detector or of the arguments: besides the
\* position of the run it changes only the output directory and the output.
C21_AttemptsLeaveCandidatesUnchanged ==
    /\ [][pc = "try" => /\ compilers' = compilers
                        /\ hostVars' = hostVars
                        /\ argVars' = argVars]_vars
    /\ []((pc \in {"try", "done"} /\ ~list) =>
            /\ compilers = CandidatesAsBuilt
            /\ \A i \in DOMAIN log :
                  \E k \in DOMAIN compilers : compilers[k] = log[i].compiler)

\* C21 witness: an automatic run over three or more descriptors has ended
\* after failed attempts and a successful one that created the output
\* directory, and the list is the sorted detection result, not the detection
\* order.
C21_Witness ==
    /\ AutoMode
    /\ pc = "done"
    /\ Len(compilers) >= 3
    /\ Len(log) >= 3
    /\ ~log[1].ok
    /\ log[Len(log)].ok
    /\ binDir
    /\ compilers = CandidatesAsBuilt
    /\ compilers # detect_compilers

====
